---- MODULE Spec2Model ----
(***************************************************************************)
(* file-force: the tag cryptography of LibCrypto (ECDH + HKDF + AES-CTR),  *)
(* the tag operations built on it, and the event harvester with its        *)
(* redundant retrieval.                                                    *)
(*                                                                         *)
(* JavaScript values are tagged records [t, v]:                            *)
(*   Str(<<chars>>)  a string, as its sequence of characters               *)
(*   Buf(<<bytes>>)  a Buffer, as its sequence of bytes 0..255             *)
(*   Num(n), Name(s) a number, a short symbolic string ('sha256')          *)
(*   Undefined, Null                                                       *)
(***************************************************************************)
EXTENDS Integers, Sequences, FiniteSets, TLC

VARIABLES
    input,        \* the arguments of the library call of a run
    last,         \* the last library call: its inputs and what it returned
    store,        \* the content store: the tags put so far, by content identifier
    delegations,  \* the delegation records written so far
    harvesterOptions, \* the harvester's command line (options)
    blockRange,   \* the block filter the harvester subscribed with
    chain,        \* the ledger's events of the subscribed type, in block order
    cursor,       \* how many of them the subscription has gone through
    delivered,    \* what the subscription callback was called with, and did
    pulls,        \* the harvester's calls of redundant.pull, in the order made
    cliPulls,     \* the calls of redundant.pull by the pull command
    local,        \* the content identifiers present in the local store
    log,          \* the lines written to the console
    crashed       \* the harvester process died of an uncaught exception

cryptoVars == <<input, last, store, delegations>>

harvesterVars ==
    <<harvesterOptions, blockRange, chain, cursor, delivered, pulls, cliPulls, local, log, crashed>>

vars == <<input, last, store, delegations,
          harvesterOptions, blockRange, chain, cursor, delivered, pulls, cliPulls, local, log,
          crashed>>

\* ---------------------------------------------------------------- bounds
\* longest plaintext string, in characters
MaxLen == 4
\* private scalars are 1..MaxPriv
MaxPriv == 3
\* number of distinct outcomes of crypto.randomBytes
RandomChoices == 2
\* longest plaintext of a tag, in characters
MaxTagLen == 1
\* tags made by delegation in one run
MaxDelegated == 1
\* events the ledger emits, and subscription errors it delivers, in one run
MaxEvents == 2
MaxErrors == 1
\* content identifiers are 1..MaxId
MaxId == 2
\* most providers a provider query returns
MaxPeers == 1
\* pulls made from the command line in one run
MaxCliPulls == 1
\* the ledger's last block when the harvester starts
LastBlock == 1
\* the largest --scan-to tried
MaxScanTo == 1

\* ---------------------------------------------------------------- values
Undefined == [t |-> "undefined", v |-> <<>>]
Null == [t |-> "null", v |-> <<>>]
Str(s) == [t |-> "str", v |-> s]
Buf(b) == [t |-> "buf", v |-> b]
Num(n) == [t |-> "num", v |-> <<n>>]
Name(s) == [t |-> "name", v |-> <<s>>]

\* JavaScript falsiness of the values used as options: undefined, null, '', 0
Falsy(x) ==
    \/ x.t \in {"undefined", "null"}
    \/ x.t \in {"str", "name"} /\ (x.v = <<>> \/ x.v = <<"">>)
    \/ x.t = "num" /\ x.v = <<0>>

\* a || b
Or(a, b) == IF Falsy(a) THEN b ELSE a

\* options.k of an options object (a record): undefined when the key is absent
Get(o, k) == IF k \in DOMAIN o THEN o[k] ELSE Undefined

\* the empty options object {}
NoOptions == [none |-> Undefined]

\* ---------------------------------------------------------------- characters and encodings
HexDigits == <<"0", "1", "2", "3", "4", "5", "6", "7", "8", "9", "a", "b", "c", "d", "e", "f">>

IsHexChar(c) == \E i \in 1..16 : HexDigits[i] = c

HexVal(c) == (CHOOSE i \in 1..16 : HexDigits[i] = c) - 1

\* the base64 alphabet restricted to the characters of the model: 0-9, a-f, g
IsB64Char(c) == IsHexChar(c) \/ c = "g"

B64Val(c) ==
    IF c = "g" THEN 32
    ELSE IF HexVal(c) < 10 THEN 52 + HexVal(c)
    ELSE 26 + (HexVal(c) - 10)

\* UTF-8 bytes of one character; "?" stands for U+FFFD
CharBytes(c) ==
    IF c = "\"" THEN <<34>>
    ELSE IF c = "=" THEN <<61>>
    ELSE IF c = "g" THEN <<103>>
    ELSE IF c = "?" THEN <<239, 191, 189>>
    ELSE IF HexVal(c) < 10 THEN <<48 + HexVal(c)>>
    ELSE <<97 + (HexVal(c) - 10)>>

RECURSIVE Utf8(_)
\* new Buffer(str): the UTF-8 encoding
Utf8(s) == IF s = <<>> THEN <<>> ELSE CharBytes(Head(s)) \o Utf8(Tail(s))

\* the character of one byte in Buffer.toString(); bytes outside the model's
\* characters decode to the replacement character
ByteChar(b) ==
    IF b = 34 THEN "\""
    ELSE IF b = 61 THEN "="
    ELSE IF b = 103 THEN "g"
    ELSE IF b >= 48 /\ b <= 57 THEN HexDigits[b - 48 + 1]
    ELSE IF b >= 97 /\ b <= 102 THEN HexDigits[b - 97 + 11]
    ELSE "?"

\* buffer.toString(): decoding as UTF-8
BufToString(b) == [i \in 1..Len(b) |-> ByteChar(b[i])]

\* new Buffer(str, 'hex'): pairs of hex digits, stopping at the first pair
\* that is not two hex digits (a trailing single digit is dropped)
BufferFromHex(s) ==
    LET pairs == Len(s) \div 2
        good(k) == IsHexChar(s[2 * k - 1]) /\ IsHexChar(s[2 * k])
        n == IF \A k \in 1..pairs : good(k) THEN pairs
             ELSE (CHOOSE k \in 1..pairs : ~good(k) /\ \A j \in 1..(k - 1) : good(j)) - 1
    IN [k \in 1..n |-> 16 * HexVal(s[2 * k - 1]) + HexVal(s[2 * k])]

\* buffer.toString('hex')
ToHex(b) ==
    [i \in 1..(2 * Len(b)) |->
        IF i % 2 = 1 THEN HexDigits[(b[(i + 1) \div 2] \div 16) + 1]
        ELSE HexDigits[(b[i \div 2] % 16) + 1]]

RECURSIVE B64Groups(_)
B64Groups(s) ==
    IF Len(s) < 2 THEN <<>>
    ELSE LET a == B64Val(s[1])
             b == B64Val(s[2])
             c == IF Len(s) >= 3 THEN B64Val(s[3]) ELSE 0
             d == IF Len(s) >= 4 THEN B64Val(s[4]) ELSE 0
             n == ((a * 64 + b) * 64 + c) * 64 + d
             three == <<n \div 65536, (n \div 256) % 256, n % 256>>
         IN IF Len(s) = 2 THEN SubSeq(three, 1, 1)
            ELSE IF Len(s) = 3 THEN SubSeq(three, 1, 2)
            ELSE three \o B64Groups(SubSeq(s, 5, Len(s)))

\* new Buffer(str, 'base64'): characters outside the alphabet (padding
\* included) are skipped, every 4 characters give 3 bytes
BufferFromBase64(s) == B64Groups(SelectSeq(s, IsB64Char))

\* validator.isHexadecimal: /^[0-9A-F]+$/i
isHexadecimal(s) == Len(s) > 0 /\ \A i \in 1..Len(s) : IsHexChar(s[i])

\* validator.isBase64: a multiple of 4 characters of the alphabet, with at
\* most two '=' at the very end
isBase64(s) ==
    /\ Len(s) > 0
    /\ Len(s) % 4 = 0
    /\ \A i \in 1..Len(s) : IsB64Char(s[i]) \/ s[i] = "="
    /\ LET pads == {i \in 1..Len(s) : s[i] = "="}
       IN \/ pads = {}
          \/ pads = {Len(s)}
          \/ pads = {Len(s) - 1, Len(s)}

isString(x) == x.t = "str"

\* str2buf(str, enc); enc = "" for a call without encoding
str2buf(x, enc) ==
    IF isString(x)
    THEN IF enc # ""
         THEN IF enc = "hex" THEN Buf(BufferFromHex(x.v))
              ELSE IF enc = "base64" THEN Buf(BufferFromBase64(x.v))
              ELSE Buf(Utf8(x.v))
         ELSE IF isHexadecimal(x.v) THEN Buf(BufferFromHex(x.v))
              ELSE IF isBase64(x.v) THEN Buf(BufferFromBase64(x.v))
              ELSE Buf(Utf8(x.v))
    ELSE x

\* JSON.stringify of a string without characters that need escaping
JSONstringify(x) == Str(<<"\"">> \o x.v \o <<"\"">>)

IsDigit(c) == IsHexChar(c) /\ HexVal(c) < 10

RECURSIVE Decimal(_)
Decimal(s) == IF s = <<>> THEN 0 ELSE 10 * Decimal(SubSeq(s, 1, Len(s) - 1)) + HexVal(s[Len(s)])

\* JSON.parse of a text: a string literal gives the string, a run of digits
\* the number, anything else of the model's characters is a SyntaxError (Null)
JSONparse(s) ==
    IF /\ Len(s) >= 2
       /\ s[1] = "\""
       /\ s[Len(s)] = "\""
       /\ \A i \in 2..(Len(s) - 1) : s[i] # "\""
    THEN Str(SubSeq(s, 2, Len(s) - 1))
    ELSE IF /\ Len(s) >= 1
            /\ \A i \in 1..Len(s) : IsDigit(s[i])
            /\ (Len(s) = 1 \/ s[1] # "0")
    THEN Num(Decimal(s))
    ELSE Null

\* ---------------------------------------------------------------- LibCrypto
\* the curve: a cyclic group with generator g, here the units modulo p
ec == [p |-> 23, g |-> 5]

RECURSIVE ModExp(_, _, _)
\* scalar multiplication of a point by k, written multiplicatively
ModExp(base, k, m) == IF k = 0 THEN 1 ELSE (base * ModExp(base, k - 1, m)) % m

private2public(privateKey) == ModExp(ec.g, privateKey, ec.p)

\* keyPair(dataDir, address, password): the pair of the recovered private key
keyPair(privateKey) == [privateKey |-> privateKey, publicKey |-> private2public(privateKey)]

deriveSharedKeyOwnPublic(privateKey1, publicKey2) ==
    ModExp(private2public(privateKey1), privateKey1, ec.p)

deriveSharedKey(privateKey1, publicKey2) == ModExp(publicKey2, privateKey1, ec.p)

\* new HKDF(hashAlg, salt, ikm).derive(info, size): an ideal hash of its inputs
HKDF(hashAlg, salt, ikm, info, size) ==
    [alg |-> hashAlg, salt |-> salt, ikm |-> ikm, info |-> info, size |-> size]

\* crypto.randomBytes(n): one of RandomChoices buffers of n bytes
randomBytes(n) == {[i \in 1..n |-> b] : b \in 0..(RandomChoices - 1)}

\* deriveSecretKey(derivedSharedKey, options); rnd is what crypto.randomBytes(32)
\* returns when it is called
deriveSecretKey(derivedSharedKey, options, rnd) ==
    LET hashAgl == Or(Get(options, "hashAlg"), Name("sha256"))
        info == Or(Get(options, "info"), Name("file-force"))
        size == Or(Get(options, "size"), Num(32))
        salt == str2buf(Or(Get(options, "salt"), Buf(rnd)), "hex")
    IN [key |-> HKDF(hashAgl, salt.v, derivedSharedKey, info, size),
        hkdf |-> [hashAgl |-> hashAgl, salt |-> Str(ToHex(salt.v)),
                  info |-> info, size |-> size]]

\* key length in bytes the algorithm requires
KeyLength(algorithm) == IF algorithm = Name("aes-256-ctr") THEN 32 ELSE 16

CipherAcceptsAnyKeySize(algorithm, secretKey, iv) ==
    /\ algorithm \in {Name("aes-256-ctr"), Name("aes-128-ctr")}
    /\ iv.t = "buf"
    /\ Len(iv.v) = 16

\* crypto.createCipheriv / createDecipheriv accept the key and iv
CipherAccepts(algorithm, secretKey, iv) ==
    /\ algorithm \in {Name("aes-256-ctr"), Name("aes-128-ctr")}
    /\ secretKey.size = Num(KeyLength(algorithm))
    /\ iv.t = "buf"
    /\ Len(iv.v) = 16

RECURSIVE Xor(_, _, _)
Xor(a, b, bits) ==
    IF bits = 0 THEN 0
    ELSE (((a % 2) + (b % 2)) % 2) + 2 * Xor(a \div 2, b \div 2, bits - 1)

RECURSIVE SumTo(_, _)
SumTo(b, n) == IF n = 0 THEN 0 ELSE b[n] + SumTo(b, n - 1)

Sum(b) == SumTo(b, Len(b))

\* what the key stream of (key, iv) starts from
KeySeed(secretKey, iv) ==
    Sum(secretKey.salt) + 17 * secretKey.ikm + 3 * secretKey.size.v[1]
       + (IF secretKey.alg = Name("sha256") THEN 0 ELSE 101)
       + (IF secretKey.info = Name("file-force") THEN 0 ELSE 59)
       + 7 * Sum(iv)

\* the i-th byte of the counter-mode key stream
KeyStream(seed, i) == (seed + 13 * i) % 256

\* cipher.update(data) ++ cipher.final() in counter mode
AesCtr(secretKey, iv, data) ==
    LET seed == KeySeed(secretKey, iv)
    IN [i \in 1..Len(data) |-> Xor(data[i], KeyStream(seed, i), 8)]

\* createCipher(secretKey, options); rnd is what crypto.randomBytes(16) returns
createCipher(secretKey, options, rnd) ==
    [algorithm |-> Or(Get(options, "algorithm"), Name("aes-256-ctr")),
     iv |-> Or(Get(options, "iv"), Buf(rnd))]

\* encrypt(data, secretKey, options): null when anything throws
encrypt(data, secretKey, options, rnd) ==
    LET bufferData == str2buf(data, "")
        cipherParam == createCipher(secretKey, options, rnd)
    IN IF bufferData.t = "buf"
          /\ CipherAccepts(cipherParam.algorithm, secretKey, cipherParam.iv)
       THEN [algorithm |-> cipherParam.algorithm,
             iv |-> Str(ToHex(cipherParam.iv.v)),
             cipherText |-> Buf(AesCtr(secretKey, cipherParam.iv.v, bufferData.v))]
       ELSE Null

\* decrypt(data, secretKey, options): null when anything throws; zeros is not
\* defined in the file, so a missing iv throws too
decrypt(data, secretKey, options) ==
    LET algorithm == Or(Get(options, "algorithm"), Name("aes-256-ctr"))
        cipherEncoding == Or(Get(options, "cipherEncoding"), Name("base64"))
        iv == Get(options, "iv")
        binData == str2buf(data, cipherEncoding.v[1])
        binIV == str2buf(iv, "hex")
    IN IF options # Undefined /\ ~Falsy(iv) /\ binData.t = "buf"
          /\ CipherAccepts(algorithm, secretKey, binIV)
       THEN Buf(AesCtr(secretKey, binIV.v, binData.v))
       ELSE Null

\* what a call that throws gives its caller
Thrown == [t |-> "throw", v |-> <<>>]

\* createDecipher(secretKey, options): nothing is caught here, and the iv goes
\* to crypto.createDecipheriv as it is given (a string as its characters)
createDecipher(secretKey, options) ==
    LET algorithm == Or(Get(options, "algorithm"), Name("aes-256-ctr"))
        iv == Get(options, "iv")
        ivBytes == IF isString(iv) THEN Buf(Utf8(iv.v)) ELSE iv
    IN IF options # Undefined /\ ~Falsy(iv) /\ CipherAccepts(algorithm, secretKey, ivBytes)
       THEN [decipher |-> [algorithm |-> algorithm, key |-> secretKey, iv |-> ivBytes],
             iv |-> iv, algorithm |-> algorithm]
       ELSE Thrown

encryptObjectForPartyOwnerIsParty(object, selfKeyPair, partyPublicKey, rndSalt, rndIv) ==
    LET objectJson == JSONstringify(object)
        selfSharedKey == deriveSharedKey(selfKeyPair.privateKey, partyPublicKey)
        selfStrongKeyMaterial == deriveSecretKey(selfSharedKey, NoOptions, rndSalt)
        encryptedTag == encrypt(objectJson, selfStrongKeyMaterial.key, NoOptions, rndIv)
    IN [ownerPubKey |-> partyPublicKey,
        destPubKey |-> partyPublicKey,
        hkdf |-> selfStrongKeyMaterial.hkdf,
        encryptedTag |-> encryptedTag]

encryptObjectForPartyDestIsSelf(object, selfKeyPair, partyPublicKey, rndSalt, rndIv) ==
    LET objectJson == JSONstringify(object)
        selfSharedKey == deriveSharedKey(selfKeyPair.privateKey, partyPublicKey)
        selfStrongKeyMaterial == deriveSecretKey(selfSharedKey, NoOptions, rndSalt)
        encryptedTag == encrypt(objectJson, selfStrongKeyMaterial.key, NoOptions, rndIv)
    IN [ownerPubKey |-> selfKeyPair.publicKey,
        destPubKey |-> selfKeyPair.publicKey,
        hkdf |-> selfStrongKeyMaterial.hkdf,
        encryptedTag |-> encryptedTag]

\* encryptObjectForParty(object, selfKeyPair, partyPublicKey): `typeof obj` names
\* no variable and is 'undefined', so the object is always stringified
encryptObjectForParty(object, selfKeyPair, partyPublicKey, rndSalt, rndIv) ==
    LET objectJson == JSONstringify(object)
        selfSharedKey == deriveSharedKey(selfKeyPair.privateKey, partyPublicKey)
        selfStrongKeyMaterial == deriveSecretKey(selfSharedKey, NoOptions, rndSalt)
        encryptedTag == encrypt(objectJson, selfStrongKeyMaterial.key, NoOptions, rndIv)
    IN [ownerPubKey |-> selfKeyPair.publicKey,
        destPubKey |-> partyPublicKey,
        hkdf |-> selfStrongKeyMaterial.hkdf,
        encryptedTag |-> encryptedTag]

\* ---------------------------------------------------------------- the harvester's set-up
Infinity == Name("Infinity")

\* optionDefinitions: the defaults of the command line
optionDefinitions ==
    [mode |-> "ectag", offset |-> 50, scanTo |-> Infinity, failFast |-> FALSE]

blockFilterNoUpperBound(opts, lastBlock) ==
    [fromBlock |-> lastBlock - opts.offset, toBlock |-> Name("latest")]

\* blockFilter: from lastBlock - offset to --scan-to, 'latest' when that is Infinity
blockFilter(opts, lastBlock) ==
    [fromBlock |-> lastBlock - opts.offset,
     toBlock |-> IF opts.scanTo = Infinity THEN Name("latest") ELSE opts.scanTo]

\* FileForceEth.bnToMultihash58: the content identifier of an event argument
bnToMultihash58(hashBn) == [multihash58 |-> hashBn]

\* modeToEvent[mode].event
modeEvent(mode) ==
    IF mode = "file" THEN "NewFileAppeared"
    ELSE IF mode = "ectag" THEN "EcTagRegistered"
    ELSE "EcTagDelegated"

modeHandlerOriginOnly(mode, event) ==
    IF mode = "file" THEN <<event.args.ipfs>>
    ELSE IF mode = "ectag" THEN <<event.args.ipfs>>
    ELSE <<event.args.ipfsOrigin>>

\* modeToEvent[mode].handler(event): the arguments it calls pull with, in order
modeHandler(mode, event) ==
    IF mode = "file" THEN <<event.args.ipfs>>
    ELSE IF mode = "ectag" THEN <<event.args.ipfs>>
    ELSE <<event.args.ipfsOrigin, event.args.ipfsNew>>

\* the callback startHarvesting gives to watchEvents: the pulls it starts
watchCallback(mode, error, event) ==
    IF ~error THEN modeHandler(mode, event) ELSE <<>>

NoError == "none"

pullCallbackThrowsOnAnyError(error, opts) == error # NoError

\* the callback pull gives to redundant.pull: whether it throws
pullCallbackThrows(error, opts) == error # NoError /\ opts.failFast

\* the line that callback writes
pullCallbackLine(ipfsHash, event, error) ==
    [hash |-> ipfsHash, block |-> event.blockNumber,
     text |-> IF error # NoError THEN error ELSE "done"]

\* cmd pull's callback writes 'Pulled' whatever it is called with
pullCmdLine(hash) == [hash |-> hash, block |-> 0, text |-> "Pulled"]

\* a harvester that was started with the defaults and has seen nothing
InitHarvester(opts) ==
    /\ harvesterOptions = opts
    /\ blockRange = blockFilter(opts, LastBlock)
    /\ chain = <<>>
    /\ cursor = 0
    /\ delivered = <<>>
    /\ pulls = <<>>
    /\ cliPulls = <<>>
    /\ local = {}
    /\ log = {}
    /\ crashed = FALSE

\* ---------------------------------------------------------------- inputs
Priv == 1..MaxPriv

PlainAlphabet == {"a", "g"}

RECURSIVE StringsOfLen(_)
StringsOfLen(n) ==
    IF n = 0 THEN {<<>>}
    ELSE {<<c>> \o s : c \in PlainAlphabet, s \in StringsOfLen(n - 1)}

StringsUpTo(n) == UNION {StringsOfLen(k) : k \in 0..n}

HashAlgs == {Undefined, Name("sha256"), Name("sha512")}
Infos == {Undefined, Name("file-force"), Name("other")}
Sizes == {Undefined, Num(32), Num(16)}
SaltStrings == {Str(<<"a", "1">>), Str(<<"b", "2">>)}

\* ---------------------------------------------------------------- the library calls, one per run
Secrets == {deriveSharedKey(a, private2public(b)) : a \in Priv, b \in Priv}

SharedKeyInputs == [op : {"deriveSharedKey"}, a : Priv, b : Priv]

SecretKeyInputs ==
    [op : {"deriveSecretKey"}, secret : Secrets, hashAlg : HashAlgs, info : Infos,
     size : Sizes, salt : SaltStrings \cup {Undefined}, salt2 : SaltStrings]

EncryptInputs ==
    [op : {"encrypt", "encryptObjectForParty"}, data : StringsUpTo(MaxLen), a : Priv, b : Priv]

\* an iv as decrypt may be given it: none, '', hex of sixteen bytes or of one,
\* a buffer of sixteen bytes or of fifteen
Ivs ==
    {Undefined, Str(<<>>), Str(ToHex([i \in 1..16 |-> 0])), Str(<<"a", "a">>),
     Buf([i \in 1..16 |-> 0]), Buf([i \in 1..15 |-> 0])}

DecryptInputs ==
    [op : {"decrypt"}, a : Priv, b : Priv, size : {Num(32), Num(16)},
     algorithm : {Undefined, Name("aes-256-ctr"), Name("aes-128-ctr")}, iv : Ivs,
     hasOptions : BOOLEAN, data : {Buf(<<1, 2>>), Str(<<"g", "g", "g", "g">>)}]

NoCall == [op |-> "none"]

InitStore ==
    /\ store = <<>>
    /\ delegations = {}

\* a run of the library: one call with arguments of the caller's choice
InitPrimitives ==
    /\ input \in SharedKeyInputs \cup SecretKeyInputs \cup EncryptInputs \cup DecryptInputs
    /\ last = NoCall
    /\ InitStore
    /\ InitHarvester(optionDefinitions)

\* deriveSharedKey on both sides of a pair of key pairs
DeriveSharedKey ==
    /\ input.op = "deriveSharedKey"
    /\ last = NoCall
    /\ LET A == keyPair(input.a)
           B == keyPair(input.b)
       IN last' = [op |-> "deriveSharedKey", A |-> A, B |-> B,
                   ab |-> deriveSharedKey(A.privateKey, B.publicKey),
                   ba |-> deriveSharedKey(B.privateKey, A.publicKey)]
    /\ UNCHANGED <<input, store, delegations, harvesterVars>>

\* deriveSecretKey with options, again with the hkdf it returned as options,
\* and once more with only the salt changed
DeriveSecretKey ==
    /\ input.op = "deriveSecretKey"
    /\ last = NoCall
    /\ \E rnd \in randomBytes(32), rnd2 \in randomBytes(32) :
        LET options == [hashAlg |-> input.hashAlg, info |-> input.info,
                        size |-> input.size, salt |-> input.salt]
            first == deriveSecretKey(input.secret, options, rnd)
            again == deriveSecretKey(input.secret, first.hkdf, rnd2)
            other == deriveSecretKey(input.secret, [options EXCEPT !.salt = input.salt2], rnd2)
        IN last' = [op |-> "deriveSecretKey", options |-> options,
                    first |-> first, again |-> again, other |-> other]
    /\ UNCHANGED <<input, store, delegations, harvesterVars>>

\* encrypt for a party, then decrypt on the party's side with the kdf
\* parameters and the iv the encryption returned
EncryptDecrypt ==
    /\ input.op = "encrypt"
    /\ last = NoCall
    /\ \E rndSalt \in randomBytes(32), rndIv \in randomBytes(16) :
        LET A == keyPair(input.a)
            B == keyPair(input.b)
            material == deriveSecretKey(deriveSharedKey(A.privateKey, B.publicKey),
                                        NoOptions, rndSalt)
            encrypted == encrypt(Str(input.data), material.key, NoOptions, rndIv)
            readerKey == deriveSecretKey(deriveSharedKey(B.privateKey, A.publicKey),
                                         material.hkdf, rndSalt).key
            decrypted == IF encrypted = Null THEN Null
                         ELSE decrypt(encrypted.cipherText, readerKey, [iv |-> encrypted.iv])
        IN last' = [op |-> "encrypt", data |-> Str(input.data), A |-> A, B |-> B,
                    hkdf |-> material.hkdf, encrypted |-> encrypted,
                    decrypted |-> decrypted]
    /\ UNCHANGED <<input, store, delegations, harvesterVars>>

\* encryptObjectForParty, then LibCrypto.decrypt on the party's side
EncryptObjectForParty ==
    /\ input.op = "encryptObjectForParty"
    /\ last = NoCall
    /\ \E rndSalt \in randomBytes(32), rndIv \in randomBytes(16) :
        LET A == keyPair(input.a)
            B == keyPair(input.b)
            tag == encryptObjectForParty(Str(input.data), A, B.publicKey, rndSalt, rndIv)
            readerKey == deriveSecretKey(deriveSharedKey(B.privateKey, tag.ownerPubKey),
                                         tag.hkdf, rndSalt).key
            decrypted == IF tag.encryptedTag = Null THEN Null
                         ELSE decrypt(tag.encryptedTag.cipherText, readerKey,
                                      [iv |-> tag.encryptedTag.iv])
        IN last' = [op |-> "encryptObjectForParty", data |-> Str(input.data),
                    A |-> A, B |-> B, hkdf |-> tag.hkdf,
                    encrypted |-> tag.encryptedTag, decrypted |-> decrypted]
    /\ UNCHANGED <<input, store, delegations, harvesterVars>>

\* decrypt and createDecipher with a key, an algorithm and an iv that need not
\* fit each other, or with no options at all
Decrypt ==
    /\ input.op = "decrypt"
    /\ last = NoCall
    /\ \E rndSalt \in randomBytes(32) :
        LET secretKey == deriveSecretKey(deriveSharedKey(input.a, private2public(input.b)),
                                         [size |-> input.size], rndSalt).key
            options == IF input.hasOptions
                       THEN [algorithm |-> input.algorithm, iv |-> input.iv]
                       ELSE Undefined
        IN last' = [op |-> "decrypt", secretKey |-> secretKey, options |-> options,
                    data |-> input.data,
                    result |-> decrypt(input.data, secretKey, options),
                    decipher |-> createDecipher(secretKey, options)]
    /\ UNCHANGED <<input, store, delegations, harvesterVars>>

NextPrimitives ==
    \/ DeriveSharedKey
    \/ DeriveSecretKey
    \/ EncryptDecrypt
    \/ EncryptObjectForParty
    \/ Decrypt

SpecPrimitives == InitPrimitives /\ [][NextPrimitives]_vars

\* ---------------------------------------------------------------- the tag operations
\* the store's put: the content identifier of the next object
Put(objects) == Len(objects) + 1

\* createTag(plaintext, ownerIdentity, destPublicKey): the tag that is stored
createTag(plaintext, ownerIdentity, destPublicKey, rndSalt, rndIv) ==
    encryptObjectForParty(plaintext, ownerIdentity, destPublicKey, rndSalt, rndIv)

Failure(kind) == [status |-> kind, value |-> Null]

\* the tag's payload read with the reader's key: shared secret with the
\* owner, key from the tag's kdf parameters, decrypt, parse
openTag(tag, readerIdentity) ==
    LET weakKey == deriveSharedKey(readerIdentity.privateKey, tag.ownerPubKey)
        strongKey == deriveSecretKey(weakKey, tag.hkdf, <<>>).key
        bytes == IF tag.encryptedTag = Null THEN Null
                 ELSE decrypt(tag.encryptedTag.cipherText, strongKey,
                              [iv |-> tag.encryptedTag.iv])
        object == IF bytes = Null THEN Null ELSE JSONparse(BufToString(bytes.v))
    IN IF object = Null THEN Failure("DecryptionError")
       ELSE [status |-> "ok", value |-> object]

decryptTagWithoutCheck(tag, readerIdentity) == openTag(tag, readerIdentity)

\* decryptTag(tag, readerIdentity): only the tag's destination may read it
decryptTag(tag, readerIdentity) ==
    IF readerIdentity.publicKey # tag.destPubKey THEN Failure("UnauthorizedAccess")
    ELSE openTag(tag, readerIdentity)

\* unlockKeys(account, password) for the account a tag names as its party
PartyKeyPair(tag) == keyPair(CHOOSE k \in Priv : private2public(k) = tag.destPubKey)

TagInputs == [op : {"createTag"}, data : StringsUpTo(MaxTagLen), a : Priv, b : Priv]

\* a run over one tag: the owner's call of add or createTag is still to come
InitTags ==
    /\ input \in TagInputs
    /\ last = NoCall
    /\ InitStore
    /\ InitHarvester(optionDefinitions)

\* cmd add(path): a tag for the account's own public key
add ==
    /\ store = <<>>
    /\ input.a = input.b
    /\ \E rndSalt \in randomBytes(32), rndIv \in randomBytes(16) :
        LET selfKeyPair == keyPair(input.a)
            tag == createTag(Str(input.data), selfKeyPair, selfKeyPair.publicKey,
                             rndSalt, rndIv)
        IN /\ store' = Append(store, tag)
           /\ last' = [op |-> "add", object |-> Str(input.data), owner |-> selfKeyPair,
                       dest |-> selfKeyPair.publicKey, hash |-> Put(store)]
    /\ UNCHANGED <<input, delegations, harvesterVars>>

\* createTag for another party
CreateTag ==
    /\ store = <<>>
    /\ \E rndSalt \in randomBytes(32), rndIv \in randomBytes(16) :
        LET owner == keyPair(input.a)
            dest == private2public(input.b)
            tag == createTag(Str(input.data), owner, dest, rndSalt, rndIv)
        IN /\ store' = Append(store, tag)
           /\ last' = [op |-> "createTag", object |-> Str(input.data), owner |-> owner,
                       dest |-> dest, hash |-> Put(store)]
    /\ UNCHANGED <<input, delegations, harvesterVars>>

\* decryptTag by any identity
DecryptTag ==
    /\ \E hash \in DOMAIN store, c \in Priv :
        last' = [op |-> "decryptTag", hash |-> hash, reader |-> keyPair(c),
                 result |-> decryptTag(store[hash], keyPair(c))]
    /\ UNCHANGED <<input, store, delegations, harvesterVars>>

\* cmd decrypt(ecTagHash): unlocks the account the tag names as its party
decryptCmd ==
    /\ \E ecTagHash \in DOMAIN store :
        LET ecTag == store[ecTagHash]
            selfKeyPair == PartyKeyPair(ecTag)
        IN last' = [op |-> "decrypt", hash |-> ecTagHash, reader |-> selfKeyPair,
                    result |-> decryptTag(ecTag, selfKeyPair)]
    /\ UNCHANGED <<input, store, delegations, harvesterVars>>

\* delegateTag(tag, readerIdentity, newDestPublicKey): decrypt, then a new tag
\* by the reader for the new destination, and the record linking the two
delegateTag(ecTagHash, selfKeyPair, anotherPublic, rndSalt, rndIv) ==
    \E opened \in {decryptTag(store[ecTagHash], selfKeyPair)} :
        IF opened.status # "ok" \/ opened.value.t # "str"
        THEN /\ last' = [op |-> "delegateTag", origin |-> ecTagHash, reader |-> selfKeyPair,
                         newDest |-> anotherPublic, status |-> opened.status,
                         originTag |-> store[ecTagHash], hash |-> 0]
             /\ UNCHANGED <<store, delegations>>
        ELSE /\ store' = Append(store, createTag(opened.value, selfKeyPair, anotherPublic,
                                                 rndSalt, rndIv))
             /\ delegations' = delegations \cup {[origin |-> ecTagHash, new |-> Put(store)]}
             /\ last' = [op |-> "delegateTag", origin |-> ecTagHash, reader |-> selfKeyPair,
                         newDest |-> anotherPublic, status |-> "ok",
                         originTag |-> store[ecTagHash], hash |-> Put(store)]

\* delegateTag called by any identity
DelegateTag ==
    /\ Cardinality(delegations) < MaxDelegated
    /\ \E hash \in DOMAIN store, b \in Priv, c \in Priv,
          rndSalt \in randomBytes(32), rndIv \in randomBytes(16) :
        \E selfKeyPair \in {keyPair(b)} :
            delegateTag(hash, selfKeyPair, private2public(c), rndSalt, rndIv)
    /\ UNCHANGED <<input, harvesterVars>>

\* cmd delegate(ecTagHash, anotherPublic): unlocks the tag's party account
delegateCmd ==
    /\ Cardinality(delegations) < MaxDelegated
    /\ \E ecTagHash \in DOMAIN store, c \in Priv,
          rndSalt \in randomBytes(32), rndIv \in randomBytes(16) :
        \E selfKeyPair \in {PartyKeyPair(store[ecTagHash])} :
            delegateTag(ecTagHash, selfKeyPair, private2public(c), rndSalt, rndIv)
    /\ UNCHANGED <<input, harvesterVars>>

NextTags ==
    \/ add
    \/ CreateTag
    \/ DecryptTag
    \/ decryptCmd
    \/ DelegateTag
    \/ delegateCmd

SpecTags == InitTags /\ [][NextTags]_vars

\* ---------------------------------------------------------------- the harvester and the retrieval
Ids == 1..MaxId

\* a delegation event names two tags: delegation always makes a new one
EventArgs(kind) ==
    IF kind = "EcTagDelegated"
    THEN {a \in [ipfsOrigin : Ids, ipfsNew : Ids] : a.ipfsOrigin # a.ipfsNew}
    ELSE [ipfs : Ids]

CommandLines ==
    [mode : {"file", "ectag", "ecdtag"}, offset : {0, 50},
     scanTo : {Infinity} \cup {Num(n) : n \in 1..MaxScanTo}, failFast : BOOLEAN]

InitHarvesting ==
    /\ input = NoCall
    /\ last = NoCall
    /\ InitStore
    /\ \E opts \in CommandLines : InitHarvester(opts)

\* the ledger: an event of the subscribed type in the last block or a new one
Emit ==
    /\ Len(chain) < MaxEvents
    /\ \E args \in EventArgs(modeEvent(harvesterOptions.mode)), gap \in 0..1 :
        LET prev == IF chain = <<>> THEN 0 ELSE chain[Len(chain)].blockNumber
        IN chain' = Append(chain, [event |-> modeEvent(harvesterOptions.mode),
                                   blockNumber |-> prev + gap, args |-> args])
    /\ UNCHANGED <<cryptoVars, harvesterOptions, blockRange, cursor, delivered, pulls, cliPulls,
                   local, log, crashed>>

\* watchEvents: the subscription passes the events of its block range
InBlockRange(event, range) ==
    /\ event.blockNumber >= range.fromBlock
    /\ range.toBlock = Name("latest") \/ event.blockNumber <= range.toBlock.v[1]

\* redundant.pull is called: the retrieval is started
Started(ipfsHash, event, origin) ==
    [hash |-> ipfsHash, event |-> event, origin |-> origin, phase |-> "started",
     wasLocal |-> ipfsHash \in local, queries |-> 0, attempts |-> 0,
     error |-> NoError]

\* pull(hashBn, event) for each argument the handler passes
StartPulls(hashes, event) ==
    [i \in 1..Len(hashes) |-> Started(bnToMultihash58(hashes[i]), event, "harvester")]

\* how many pulls of the harvester have ended in an error so far
FailedPulls == Cardinality({i \in DOMAIN pulls : pulls[i].error # NoError})

\* the subscription comes to its next event and calls back when it is in range
Deliver ==
    /\ ~crashed
    /\ cursor < Len(chain)
    /\ cursor' = cursor + 1
    /\ LET event == chain[cursor + 1]
       IN IF InBlockRange(event, blockRange)
          THEN LET hashes == watchCallback(harvesterOptions.mode, FALSE, event)
               IN /\ delivered' = Append(delivered, [error |-> FALSE, event |-> event,
                                                     handled |-> Len(hashes) > 0,
                                                     afterFailure |-> FailedPulls > 0])
                  /\ pulls' = pulls \o StartPulls(hashes, event)
          ELSE UNCHANGED <<delivered, pulls>>
    /\ UNCHANGED <<cryptoVars, harvesterOptions, blockRange, chain, cliPulls, local, log, crashed>>

NoEvent == [event |-> "undefined", blockNumber |-> 0, args |-> [ipfs |-> 0]]

\* the subscription calls back with an error in place of an event
DeliverError ==
    /\ ~crashed
    /\ Cardinality({i \in DOMAIN delivered : delivered[i].error}) < MaxErrors
    /\ LET hashes == watchCallback(harvesterOptions.mode, TRUE, NoEvent)
       IN /\ delivered' = Append(delivered, [error |-> TRUE, event |-> NoEvent,
                                             handled |-> Len(hashes) > 0,
                                             afterFailure |-> FailedPulls > 0])
          /\ pulls' = pulls \o StartPulls(hashes, NoEvent)
    /\ UNCHANGED <<cryptoVars, harvesterOptions, blockRange, chain, cursor, cliPulls, local, log,
                   crashed>>

\* the retrieval of a pull: each of the peers the provider query returned is
\* tried in turn until one delivers
Fetched(p, peers, deliverer) ==
    [p EXCEPT !.phase = "called", !.queries = 1,
              !.attempts = IF deliverer = 0 THEN peers ELSE deliverer,
              !.error = IF deliverer = 0 THEN "UnavailableContent" ELSE NoError]

redundantPullWithoutLocalCheck(p) ==
    UNION {{Fetched(p, peers, deliverer) : deliverer \in 0..peers} : peers \in 0..MaxPeers}

\* redundant.pull(hash, callback): nothing to do when the content is local,
\* else the providers are asked and tried in turn; the ways it can end
redundantPull(p) ==
    IF p.hash \in local THEN {[p EXCEPT !.phase = "called"]}
    ELSE UNION {{Fetched(p, peers, deliverer) : deliverer \in 0..peers} : peers \in 0..MaxPeers}

\* the local store after a pull ended
Persisted(finished) ==
    IF finished.error = NoError THEN local \cup {finished.hash} ELSE local

\* a pull of the harvester ends and its callback runs
Pull ==
    /\ ~crashed
    /\ \E i \in DOMAIN pulls :
        /\ pulls[i].phase = "started"
        /\ \E finished \in redundantPull(pulls[i]) :
            /\ pulls' = [pulls EXCEPT ![i] = finished]
            /\ local' = Persisted(finished)
            /\ log' = log \cup {pullCallbackLine(finished.hash, finished.event, finished.error)}
            /\ crashed' = pullCallbackThrows(finished.error, harvesterOptions)
    /\ UNCHANGED <<cryptoVars, harvesterOptions, blockRange, chain, cursor, delivered, cliPulls>>

\* cmd pull(hash): redundant.pull is called
pullCmd ==
    /\ Len(cliPulls) < MaxCliPulls
    /\ \E id \in Ids :
        cliPulls' = Append(cliPulls, Started(bnToMultihash58(id), NoEvent, "cli"))
    /\ UNCHANGED <<cryptoVars, harvesterOptions, blockRange, chain, cursor, delivered, pulls,
                   local, log, crashed>>

\* a pull of the command ends and its callback runs
pullCmdCallback ==
    /\ \E i \in DOMAIN cliPulls :
        /\ cliPulls[i].phase = "started"
        /\ \E finished \in redundantPull(cliPulls[i]) :
            /\ cliPulls' = [cliPulls EXCEPT ![i] = finished]
            /\ local' = Persisted(finished)
            /\ log' = log \cup {pullCmdLine(finished.hash)}
    /\ UNCHANGED <<cryptoVars, harvesterOptions, blockRange, chain, cursor, delivered, pulls,
                   crashed>>

NextHarvester ==
    \/ Emit
    \/ Deliver
    \/ DeliverError
    \/ Pull
    \/ pullCmd
    \/ pullCmdCallback

SpecHarvester == InitHarvesting /\ [][NextHarvester]_vars

\* ---------------------------------------------------------------- the watch commands
\* calculateStartBlockOffset(eventFilter), with the ledger's last block and the
\* configured event-offset it reads
calculateStartBlockOffset(eventFilter, lastBlock, EVENT_OFFSET) ==
    IF ~Falsy(Get(eventFilter, "fromBlock")) THEN Get(eventFilter, "fromBlock")
    ELSE Num(lastBlock - EVENT_OFFSET)

\* the event type each watch command subscribes to
watchEventType(cmd) ==
    IF cmd = "fwatch" THEN "NewFileAppeared"
    ELSE IF cmd = "ecwatch" THEN "EcTagRegistered"
    ELSE "EcTagDelegated"

\* the line the command's callback writes for an event
watchLine(cmd, event) ==
    [hash |-> IF cmd = "ecdwatch"
              THEN <<bnToMultihash58(event.args.ipfsOrigin),
                     bnToMultihash58(event.args.ipfsNew)>>
              ELSE <<bnToMultihash58(event.args.ipfs)>>,
     block |-> event.blockNumber, text |-> "watched"]

\* a watch command with or without a fromBlock, on a ledger at some last block
WatchInputs ==
    [op : {"fwatch", "ecwatch", "ecdwatch"},
     fromBlock : {Undefined} \cup {Num(n) : n \in 0..(LastBlock + 1)},
     lastBlock : 0..LastBlock, eventOffset : {0, 50}]

InitWatch ==
    /\ input \in WatchInputs
    /\ last = NoCall
    /\ InitStore
    /\ InitHarvester(optionDefinitions)

\* what fwatch, ecwatch and ecdwatch do alike: the start block, then the
\* subscription from it to 'latest'
watch(cmd) ==
    /\ last = NoCall
    /\ LET eventFilter == IF input.fromBlock = Undefined THEN NoOptions
                          ELSE [fromBlock |-> input.fromBlock]
           startBlock == calculateStartBlockOffset(eventFilter, input.lastBlock,
                                                   input.eventOffset)
       IN /\ blockRange' = [fromBlock |-> startBlock.v[1], toBlock |-> Name("latest")]
          /\ last' = [op |-> cmd, eventFilter |-> eventFilter, startBlock |-> startBlock]
    /\ UNCHANGED <<input, store, delegations, harvesterOptions, chain, cursor, delivered,
                   pulls, cliPulls, local, log, crashed>>

fwatch ==
    /\ input.op = "fwatch"
    /\ watch("fwatch")

ecwatch ==
    /\ input.op = "ecwatch"
    /\ watch("ecwatch")

ecdwatch ==
    /\ input.op = "ecdwatch"
    /\ watch("ecdwatch")

\* the ledger: an event of the watched type in the last block or a new one
Mine ==
    /\ Len(chain) < MaxEvents
    /\ \E args \in EventArgs(watchEventType(input.op)), gap \in 0..1 :
        LET prev == IF chain = <<>> THEN 0 ELSE chain[Len(chain)].blockNumber
        IN chain' = Append(chain, [event |-> watchEventType(input.op),
                                   blockNumber |-> prev + gap, args |-> args])
    /\ UNCHANGED <<cryptoVars, harvesterOptions, blockRange, cursor, delivered, pulls, cliPulls,
                   local, log, crashed>>

\* the subscription of a watch command comes to its next event and the
\* command's callback writes it when it is in range
Watched ==
    /\ last # NoCall
    /\ cursor < Len(chain)
    /\ cursor' = cursor + 1
    /\ LET event == chain[cursor + 1]
       IN IF InBlockRange(event, blockRange)
          THEN log' = log \cup {watchLine(last.op, event)}
          ELSE UNCHANGED log
    /\ UNCHANGED <<cryptoVars, harvesterOptions, blockRange, chain, delivered, pulls, cliPulls,
                   local, crashed>>

NextWatch ==
    \/ fwatch
    \/ ecwatch
    \/ ecdwatch
    \/ Mine
    \/ Watched

SpecWatch == InitWatch /\ [][NextWatch]_vars

\* ---------------------------------------------------------------- properties of the primitives
\* C1: encrypting P for B with A's key pair and decrypting with B's private
\* key, A's public key and the kdf parameters and iv of the encryption
\* returns exactly the bytes of P, also for strings of hexadecimal or base64
\* characters only.
\* (What encryptObjectForParty encrypts is the JSON text of P: there the bytes
\* are compared after JSON.parse.)
C1_RoundTripReturnsPlaintextBytes ==
    /\ last.op = "encrypt" => last.decrypted = Buf(Utf8(last.data.v))
    /\ last.op = "encryptObjectForParty"
        => /\ last.decrypted # Null
           /\ JSONparse(BufToString(last.decrypted.v)) = last.data

\* the algorithm a call of decrypt works with
AlgorithmOf(options) == Or(Get(options, "algorithm"), Name("aes-256-ctr"))

\* the key does not have the size the algorithm requires
KeySizeMismatch(secretKey, options) ==
    secretKey.size # Num(KeyLength(AlgorithmOf(options)))

\* no options, no iv, or an iv that is not sixteen bytes (in hex when a string)
IvMissingOrWrongLength(options) ==
    \/ options = Undefined
    \/ Falsy(Get(options, "iv"))
    \/ Get(options, "iv").t = "str" /\ Len(Get(options, "iv").v) # 32
    \/ Get(options, "iv").t = "buf" /\ Len(Get(options, "iv").v) # 16

C9_SharedKeySymmetric ==
    last.op = "deriveSharedKey" => last.ab = last.ba

C9_Witness ==
    /\ last.op = "deriveSharedKey"
    /\ last.A.publicKey # last.B.publicKey
    /\ last.ab = last.ba

\* C10: deriveSecretKey called again with the same secret and the kdf
\* parameters an earlier call returned yields the key of that call, whatever
\* hash algorithm, salt, info and size the earlier call was given; changing
\* only the salt yields a different key.
C10_RederivedKeyIsSame ==
    last.op = "deriveSecretKey"
        => /\ last.again.key = last.first.key
           /\ last.other.hkdf.salt # last.first.hkdf.salt
                => last.other.key # last.first.key

\* ---------------------------------------------------------------- properties of the tag operations
\* C2: decryptTag of a tag by an identity whose public key is not the tag's
\* destPublicKey fails with UnauthorizedAccess: no plaintext, no other error.
C2_WrongReaderUnauthorized ==
    (last.op \in {"decryptTag", "decrypt"}
       /\ last.reader.publicKey # store[last.hash].destPubKey)
        => last.result = Failure("UnauthorizedAccess")

C2_Witness ==
    /\ last.op = "decryptTag"
    /\ last.reader.publicKey # store[last.hash].destPubKey
    /\ last.reader.publicKey # store[last.hash].ownerPubKey
    /\ last.result.status = "UnauthorizedAccess"

\* C3: after delegateTag(tag1, B, C.publicKey) made tag2, decryptTag(tag2, C)
\* recovers what decryptTag(tag1, B) recovers, tag2's owner key is B's public
\* key, tag1 is as it was, and the delegation record links tag1's content
\* identifier to tag2's.
C3_DelegationPreservesPlaintext ==
    (last.op = "delegateTag" /\ last.status = "ok")
        => LET tag1 == store[last.origin]
               tag2 == store[last.hash]
               viaB == decryptTag(tag1, last.reader)
           IN /\ viaB.status = "ok"
              /\ \A c \in Priv :
                    private2public(c) = last.newDest
                        => decryptTag(tag2, keyPair(c)) = viaB
              /\ tag2.ownerPubKey = last.reader.publicKey
              /\ tag2.destPubKey = last.newDest
              /\ tag1 = last.originTag
              /\ [origin |-> last.origin, new |-> last.hash] \in delegations

C3_Witness ==
    /\ last.op = "delegateTag"
    /\ last.status = "ok"
    /\ store[last.origin].ownerPubKey # last.reader.publicKey
    /\ last.newDest # last.reader.publicKey
    /\ last.newDest # store[last.origin].ownerPubKey
    /\ \E c \in Priv : decryptTag(store[last.hash], keyPair(c)).status = "ok"

\* C4: the tag built for key pair A and destination key D (D = A's own key
\* included) has owner key A's public key, destination key D, and the kdf
\* parameters with which the key of its payload was derived.
C4_TagCarriesKeysAndKdf ==
    last.op \in {"add", "createTag"}
        => LET tag == store[last.hash]
               key == HKDF(tag.hkdf.hashAgl, BufferFromHex(tag.hkdf.salt.v),
                           deriveSharedKey(last.owner.privateKey, last.dest),
                           tag.hkdf.info, tag.hkdf.size)
           IN /\ tag.ownerPubKey = last.owner.publicKey
              /\ tag.destPubKey = last.dest
              /\ tag.encryptedTag # Null
              /\ AesCtr(key, BufferFromHex(tag.encryptedTag.iv.v),
                        tag.encryptedTag.cipherText.v)
                   = Utf8(JSONstringify(last.object).v)

C4_Witness ==
    /\ last.op = "add"
    /\ store[last.hash].destPubKey = store[last.hash].ownerPubKey
    /\ store[last.hash].ownerPubKey = last.owner.publicKey
    /\ store[last.hash].encryptedTag # Null

\* ---------------------------------------------------------------- properties of the harvester
ScanToFixed == harvesterOptions.scanTo # Infinity

\* C5: started with a fixed --scan-to, the harvester handles no event of a
\* block above it: once the events up to the bound are through, nothing more
\* is handled.
C5_NothingHandledBeyondScanTo ==
    ScanToFixed
        => /\ \A i \in DOMAIN delivered :
                delivered[i].handled
                    => delivered[i].event.blockNumber <= harvesterOptions.scanTo.v[1]
           /\ \A i \in DOMAIN pulls :
                pulls[i].event.blockNumber <= harvesterOptions.scanTo.v[1]

C5_Witness ==
    /\ ScanToFixed
    /\ cursor = Len(chain)
    /\ \E i \in DOMAIN chain : chain[i].blockNumber > harvesterOptions.scanTo.v[1]
    /\ \E i \in DOMAIN delivered : delivered[i].handled
    /\ \A i \in DOMAIN pulls : pulls[i].phase = "called"

C6_State ==
    /\ \A i \in DOMAIN pulls :
        (pulls[i].phase = "called" /\ pulls[i].error # NoError)
            => pullCallbackLine(pulls[i].hash, pulls[i].event, pulls[i].error) \in log
    /\ ~harvesterOptions.failFast
        => /\ ~crashed
           /\ \A i \in DOMAIN delivered : ~delivered[i].error => delivered[i].handled
    /\ harvesterOptions.failFast
        => /\ crashed <=> FailedPulls > 0
           /\ FailedPulls <= 1
           /\ \A i \in DOMAIN delivered : ~delivered[i].afterFailure

\* C6: without fail-fast a failed pull is reported, not thrown, and the events
\* after it are handled all the same; with fail-fast the first failed pull
\* ends the loop and no later event is handled.
C6_PullErrorReportedOrFatal ==
    /\ []C6_State
    /\ [][crashed => (delivered' = delivered /\ pulls' = pulls)]_vars

C6_Witness ==
    /\ ~harvesterOptions.failFast
    /\ \E i \in DOMAIN delivered : delivered[i].handled /\ delivered[i].afterFailure
    /\ \A i \in DOMAIN pulls : pulls[i].phase = "called"

\* C7: a subscription error delivered in place of an event is skipped (no
\* handler, later events still handled) without fail-fast, and ends the
\* harvesting loop with fail-fast.
C7_SubscriptionErrorSkippedOrFatal ==
    /\ \A i \in DOMAIN delivered : delivered[i].error => ~delivered[i].handled
    /\ ~harvesterOptions.failFast
        => \A i \in DOMAIN delivered : ~delivered[i].error => delivered[i].handled
    /\ harvesterOptions.failFast
        => \A i \in DOMAIN delivered :
              delivered[i].error
                  => /\ crashed
                     /\ \A j \in DOMAIN delivered : j > i => ~delivered[j].handled

AllPulls == {pulls[i] : i \in DOMAIN pulls} \cup {cliPulls[i] : i \in DOMAIN cliPulls}

SuccessLine(p) ==
    IF p.origin = "cli" THEN pullCmdLine(p.hash)
    ELSE pullCallbackLine(p.hash, p.event, NoError)

\* C8: a pull of an identifier that an earlier pull has made local asks no
\* provider, fetches nothing and reports success, from the command and from
\* the harvester alike.
C8_PullOfLocalContentIsNoOp ==
    \A p \in AllPulls :
        p.wasLocal
            => /\ p.queries = 0
               /\ p.attempts = 0
               /\ p.error = NoError
               /\ p.phase = "called" => SuccessLine(p) \in log

C8_Witness ==
    \E i \in DOMAIN pulls, j \in DOMAIN pulls :
        /\ i < j
        /\ pulls[i].hash = pulls[j].hash
        /\ pulls[i].event # pulls[j].event
        /\ pulls[i].queries = 1
        /\ pulls[i].error = NoError
        /\ pulls[j].wasLocal
        /\ pulls[j].phase = "called"
        /\ \E k \in DOMAIN cliPulls :
              /\ cliPulls[k].hash = pulls[i].hash
              /\ cliPulls[k].wasLocal
              /\ cliPulls[k].phase = "called"

\* the number of events among the first i deliveries (the others are errors)
EventsUpTo(i) == Cardinality({j \in 1..i : ~delivered[j].error})

\* C11: for every delegation event delivered without error a pull of the
\* origin identifier and a pull of the new identifier are started, the second
\* whether or not the first has ended, and pulls that have not ended never
\* keep the subscription from delivering its next event.
C11_DelegationPullsConcurrent ==
    /\ harvesterOptions.mode = "ecdtag"
        => \A i \in DOMAIN delivered :
              ~delivered[i].error
                  => LET k == EventsUpTo(i)
                         event == delivered[i].event
                     IN /\ 2 * k <= Len(pulls)
                        /\ pulls[2 * k - 1].event = event
                        /\ pulls[2 * k - 1].hash = bnToMultihash58(event.args.ipfsOrigin)
                        /\ pulls[2 * k].event = event
                        /\ pulls[2 * k].hash = bnToMultihash58(event.args.ipfsNew)
    /\ (~crashed /\ cursor < Len(chain)) => ENABLED Deliver

C11_Witness ==
    /\ harvesterOptions.mode = "ecdtag"
    /\ Len(delivered) = 2
    /\ \A i \in DOMAIN delivered : ~delivered[i].error
    /\ Len(pulls) = 4
    /\ pulls[1].phase = "started"
    /\ pulls[2].phase = "called"
    /\ pulls[3].phase = "started"

\* C13: a watch command given a fromBlock n >= 0 watches from block n exactly
\* (no event of an earlier block is written, and block n is in the range);
\* given none it watches from lastBlock - EVENT_OFFSET.
C13_WatchStartsAtFromBlock ==
    last.op \in {"fwatch", "ecwatch", "ecdwatch"}
        => /\ (input.fromBlock # Undefined /\ input.fromBlock.v[1] >= 0)
                => /\ blockRange.fromBlock = input.fromBlock.v[1]
                   /\ \A line \in log : line.block >= input.fromBlock.v[1]
           /\ input.fromBlock = Undefined
                => blockRange.fromBlock = input.lastBlock - input.eventOffset

====
